---- MODULE Spec2Model ----
(***************************************************************************)
(* Polling application: the HTTP handlers POST/GET /api/polls and          *)
(* POST/GET /api/polls/[id]/vote, the helpers of lib/api-helpers.ts and    *)
(* the relational store (tables polls, poll_options, votes) they talk to.  *)
(*                                                                         *)
(* A string of the program is a sequence of one-character strings, so     *)
(* that startsWith, replace, trim and length are computed, not assumed.    *)
(* Every await of a handler is a step of its own: requests interleave      *)
(* exactly at the calls to the auth provider, the store and the audit log. *)
(***************************************************************************)
EXTENDS FiniteSets, Integers, Sequences, TLC

VARIABLES
    polls,         \* table polls: set of rows
    poll_options,  \* table poll_options: set of rows
    votes,         \* table votes: set of rows
    nextId,        \* the store's id generator (polls and votes)
    req,           \* req[r]: the request handled in slot r
    audit,         \* the audit sink: the set of recorded events
    localStorage,  \* browser: the item auth_token of localStorage
    sessionStorage,\* browser: the item auth_token of sessionStorage
    fetched,       \* browser: the requests sent with fetch, in order
    clientLog,     \* browser: the calls of the client functions, in order
    dash           \* RealTimePollDashboard: its state and its votes in flight

serverVars == <<polls, poll_options, votes, nextId, req, audit>>
clientVars == <<localStorage, sessionStorage, fetched, clientLog>>

vars == <<serverVars, clientVars, dash>>

---------------------------------------------------------------------------
(* Bounds of the model *)

MaxSlots == 2      \* requests in flight at the same time (SpecVote, SpecPolls)
MaxSerial == 1     \* requests of a run with every endpoint and every input (Spec)
MaxCreated == 2    \* poll rows inserted by POST /api/polls
MaxCalls == 3      \* calls of the client functions of lib/api-client.ts (SpecClient)
MaxClicks == 3     \* calls of handleVote of the dashboard (SpecDash)

(* Program constants *)

REQUEST_SIZE_LIMIT == 10000
MIN_TOKEN_LENGTH == 10
MinTitleLength == 3
MaxTitleLength == 200
MinOptions == 2
MaxOptions == 10
MaxOptionLength == 100

UNIQUE_VIOLATION == "23505"


---------------------------------------------------------------------------
(* Strings *)

Space == " "

IsBlank(c) == c = Space

RECURSIVE TrimStart(_)
TrimStart(s) ==
    IF s = <<>> THEN <<>>
    ELSE IF IsBlank(Head(s)) THEN TrimStart(Tail(s)) ELSE s

RECURSIVE TrimEnd(_)
TrimEnd(s) ==
    IF s = <<>> THEN <<>>
    ELSE IF IsBlank(s[Len(s)]) THEN TrimEnd(SubSeq(s, 1, Len(s) - 1)) ELSE s

\* String.prototype.trim
Trim(s) == TrimEnd(TrimStart(s))

\* String.prototype.startsWith
StartsWith(s, p) == Len(s) >= Len(p) /\ SubSeq(s, 1, Len(p)) = p

\* String.prototype.replace with a string pattern: the first occurrence only
RECURSIVE ReplaceFirst(_, _)
ReplaceFirst(s, p) ==
    IF Len(s) < Len(p) THEN s
    ELSE IF StartsWith(s, p) THEN SubSeq(s, Len(p) + 1, Len(s))
    ELSE <<Head(s)>> \o ReplaceFirst(Tail(s), p)

BearerPrefix == <<"B", "e", "a", "r", "e", "r", " ">>

TokenU1 == <<"t", "o", "k", "-", "u", "s", "e", "r", "-", "0", "1">>
TokenU2 == <<"t", "o", "k", "-", "u", "s", "e", "r", "-", "0", "2">>
TokenUnknown == <<"t", "o", "k", "-", "e", "x", "p", "i", "r", "e", "d">>
TokenShort == <<"a", "b", "c">>

\* an Authorization header: absent, or a string
NoHeader == [present |-> FALSE, value |-> <<>>]
Hdr(s) == [present |-> TRUE, value |-> s]

Headers ==
    { NoHeader,
      Hdr(BearerPrefix \o TokenU1),
      Hdr(BearerPrefix \o TokenU2),
      Hdr(BearerPrefix \o TokenUnknown),
      Hdr(BearerPrefix \o TokenShort),
      Hdr(BearerPrefix \o <<" ">> \o TokenU1 \o <<" ">>),
      Hdr(BearerPrefix),
      Hdr(<<"B", "a", "s", "i", "c", " ">> \o TokenU1),
      Hdr(TokenU1) }

---------------------------------------------------------------------------
(* The auth provider: supabaseServerClient.auth.getUser(token) *)

NoUser == "none"
Users == {"u1", "u2"}

GetUser(token) ==
    IF token = TokenU1 THEN "u1"
    ELSE IF token = TokenU2 THEN "u2"
    ELSE NoUser

---------------------------------------------------------------------------
(* The relational store *)

NoRow == [id |-> 0]

\* total_votes is the column of that name of the row, which no handler writes
PollRow(id, title, active, owner, total) ==
    [id |-> id, title |-> title, is_active |-> active, owner_id |-> owner,
     total_votes |-> total]

OptionRow(id, pollId, text, n, ord) ==
    [id |-> id, poll_id |-> pollId, text |-> text, votes |-> n, order |-> ord]

VoteRow(id, pollId, optionId, userId) ==
    [id |-> id, poll_id |-> pollId, option_id |-> optionId, user_id |-> userId]

\* the id the store gives the option at position ord (from 0) of poll pollId
OptionId(pollId, ord) == 10 * pollId + ord + 1

TitleColor == <<"C", "o", "l">>
TextRed == <<"R">>
TextBlue == <<"B">>

\* the store before the first request of a run: one fresh two-option poll
\* created by u1, one poll of u2 that an administrator has deactivated, and
\* one poll of u2 whose options carry counts and whose own total_votes
\* column is out of date
InitPolls ==
    { PollRow(1, TitleColor, TRUE, "u1", 0), PollRow(2, TitleColor, FALSE, "u2", 0),
      PollRow(3, TitleColor, TRUE, "u2", 7) }

InitOptions ==
    { OptionRow(OptionId(1, 0), 1, TextRed, 0, 0),
      OptionRow(OptionId(1, 1), 1, TextBlue, 0, 1),
      OptionRow(OptionId(2, 0), 2, TextRed, 0, 0),
      OptionRow(OptionId(2, 1), 2, TextBlue, 0, 1),
      OptionRow(OptionId(3, 0), 3, TextRed, 2, 0),
      OptionRow(OptionId(3, 1), 3, TextBlue, 1, 1) }

FirstFreeId == Cardinality(InitPolls) + 1

\* what a call to the store or to the audit sink can do: return its result,
\* return an error value, or throw
Outcomes == {"ok", "error", "throw"}

\* .from(t).select().eq('id', id).single(): the row, or no row (an error)
SelectSingle(table, id) ==
    IF \E row \in table : row.id = id
    THEN CHOOSE row \in table : row.id = id
    ELSE NoRow

\* the unique constraint on votes (poll_id, user_id)
ViolatesUnique(row) ==
    \E v \in votes : v.poll_id = row.poll_id /\ v.user_id = row.user_id

\* a votes table without the unique constraint
InsertVoteCodeUnconstrained(row) == ""

\* .from('votes').insert(row): the error code, or "" when the row went in
InsertVoteCode(row) == IF ViolatesUnique(row) THEN UNIQUE_VIOLATION ELSE ""

\* .order('votes', { ascending: false }): the rows of S by falling vote
\* count, rows with equal counts in the order the store created them
RECURSIVE OrderedByVotes(_)
OrderedByVotes(S) ==
    IF S = {} THEN <<>>
    ELSE LET x == CHOOSE y \in S :
                     \A z \in S : z.votes < y.votes \/ (z.votes = y.votes /\ z.id >= y.id)
         IN  <<x>> \o OrderedByVotes(S \ {x})

OptionsOf(pollId) == { o \in poll_options : o.poll_id = pollId }

---------------------------------------------------------------------------
(* Requests *)

NoBody == [format |-> "none", option_id |-> 0]
NoPayload == [format |-> "none", title |-> <<>>, options |-> <<>>, contentLength |-> 0]
NoData == [title |-> <<>>, options |-> <<>>]

Idle ==
    [ kind |-> "none", pc |-> "idle", header |-> NoHeader, pollId |-> 0,
      body |-> NoBody, payload |-> NoPayload, data |-> NoData,
      user |-> NoUser, poll |-> NoRow, option |-> NoRow, vote |-> NoRow,
      status |-> 0, message |-> "", errors |-> {}, results |-> <<>>,
      total |-> 0, storeOps |-> 0, authCalls |-> 0, audits |-> 0,
      faults |-> {}, hadVote |-> FALSE, before |-> {},
      success |-> FALSE, keys |-> {}, dataKeys |-> {}, pollIdOut |-> 0, code |-> "" ]

\* NextResponse.json({ success: false, message }, { status }) ends the
\* request; keys are the top-level fields of the body
Respond(q, status, message) ==
    [q EXCEPT !.pc = "done", !.status = status, !.message = message,
              !.success = FALSE, !.keys = {"success", "message"}]

\* ApiHelpers.errorResponse: errors is in the body when it is truthy (an
\* empty array is)
ErrorResponse(q, message, status, errors) ==
    [Respond(q, status, message) EXCEPT !.errors = errors, !.keys = @ \cup {"errors"}]

\* ApiHelpers.successResponse: what the caller passes as data goes into the
\* field data of the body
SuccessResponse(q, message, dataKeys, status) ==
    [Respond(q, status, message) EXCEPT
        !.success = TRUE,
        !.keys = IF dataKeys # {} THEN @ \cup {"data"} ELSE @,
        !.dataKeys = dataKeys]

\* the call made at q.pc ended as out: a call that failed is noted
Noted(q, out) ==
    IF out = "ok" THEN q ELSE [q EXCEPT !.faults = @ \cup {[at |-> q.pc, out |-> out]}]

\* a call to one of the tables
Called(q, out) == [Noted(q, out) EXCEPT !.storeOps = @ + 1]

\* lib/error-handler
HandleAuthError(q, message) == Respond(q, 401, message)
HandleNotFoundError(q) == Respond(q, 404, "Poll not found")
HandleVoteError(q) == Respond(q, 500, "Failed to submit vote")

Unexpected(q) == Respond(q, 500, "An unexpected error occurred")

\* Storage.getItem('auth_token'): null, or the string that was set
NoItem == [present |-> FALSE, value |-> <<>>]
Item(s) == [present |-> TRUE, value |-> s]

\* the options of the poll the dashboard shows, and initialPolls: its counts
DashOptions == {"red", "blue"}
InitialPolls == [votes |-> [o \in DashOptions |-> IF o = "red" THEN 2 ELSE 1], totalVotes |-> 3]

\* the browser before the first call
InitBrowser ==
    /\ localStorage = NoItem
    /\ sessionStorage = NoItem
    /\ fetched = <<>>
    /\ clientLog = <<>>
    /\ dash = [polls |-> InitialPolls, rendered |-> InitialPolls, calls |-> <<>>]

\* the store as it is found, and n requests still to arrive
InitWith(n) ==
    /\ polls = InitPolls
    /\ poll_options = InitOptions
    /\ votes = {}
    /\ nextId = FirstFreeId
    /\ req = [r \in 1 .. n |-> Idle]
    /\ audit = {}
    /\ InitBrowser

---------------------------------------------------------------------------
(* POST /api/polls/[id]/vote *)

UuidBody(optionId) == [format |-> "uuid", option_id |-> optionId]
TextBody == [format |-> "text", option_id |-> 0]
BadJson == [format |-> "badjson", option_id |-> 0]

\* voteSchema.safeParse(body).success: z.string().uuid()
VoteSchemaOk(body) == body.format = "uuid"

\* request.headers.get("authorization")?.replace("Bearer ", ""); undefined
\* and the empty string are both falsy and both come out as <<>>
VoteToken(header) ==
    IF header.present THEN ReplaceFirst(header.value, BearerPrefix) ELSE <<>>

\* the handler with the poll lookup issued before the token is checked
VoteBeginLookupFirst(q) ==
    IF q.body.format = "badjson" THEN Unexpected(q)
    ELSE IF ~VoteSchemaOk(q.body)
    THEN [Respond(q, 400, "Validation failed") EXCEPT
             !.errors = {[field |-> "option_id", message |-> "Invalid option ID format"]},
             !.keys = @ \cup {"errors"}]
    ELSE LET looked == [q EXCEPT !.storeOps = @ + 1]
             token == VoteToken(q.header)
         IN  IF token = <<>> THEN HandleAuthError(looked, "No token provided")
             ELSE LET called == [looked EXCEPT !.authCalls = @ + 1] IN
                  IF GetUser(token) = NoUser
                  THEN HandleAuthError(called, "Invalid token")
                  ELSE [called EXCEPT !.user = GetUser(token), !.pc = "lookupPoll"]

\* from the entry of the handler up to the answer of auth.getUser
VoteBegin(q) ==
    IF q.body.format = "badjson" THEN Unexpected(q)
    ELSE IF ~VoteSchemaOk(q.body)
    THEN [Respond(q, 400, "Validation failed") EXCEPT
             !.errors = {[field |-> "option_id", message |-> "Invalid option ID format"]},
             !.keys = @ \cup {"errors"}]
    ELSE LET token == VoteToken(q.header) IN
         IF token = <<>> THEN HandleAuthError(q, "No token provided")
         ELSE LET called == [q EXCEPT !.authCalls = @ + 1] IN
              IF GetUser(token) = NoUser
              THEN HandleAuthError(called, "Invalid token")
              ELSE [called EXCEPT !.user = GetUser(token), !.pc = "lookupPoll"]

\* the answer of a poll lookup that does not look at the active flag
VoteAfterPollAnyState(q, out, row) ==
    LET asked == Called(q, out) IN
    IF out = "throw" THEN Unexpected(asked)
    ELSE IF out = "error" \/ row = NoRow THEN HandleNotFoundError(asked)
    ELSE [asked EXCEPT !.poll = row, !.pc = "lookupOption"]

\* the answer of the poll lookup, given the row the store returned
VoteAfterPoll(q, out, row) ==
    LET asked == Called(q, out) IN
    IF out = "throw" THEN Unexpected(asked)
    ELSE IF out = "error" \/ row = NoRow THEN HandleNotFoundError(asked)
    ELSE IF ~row.is_active THEN Respond(asked, 400, "Poll is no longer active")
    ELSE [asked EXCEPT !.poll = row, !.pc = "lookupOption"]

\* the option lookup by id alone, without .eq('poll_id', pollId)
SelectOptionAnyPoll(optionId, pollId) == SelectSingle(poll_options, optionId)

\* .from('poll_options').eq('id', option_id).eq('poll_id', pollId).single()
SelectOption(optionId, pollId) ==
    IF \E o \in poll_options : o.id = optionId /\ o.poll_id = pollId
    THEN CHOOSE o \in poll_options : o.id = optionId /\ o.poll_id = pollId
    ELSE NoRow

\* the answer of the option lookup when a missing row is not noticed
VoteAfterOptionUnchecked(q, out, row) ==
    LET asked == Called(q, out) IN
    IF out = "throw" THEN Unexpected(asked)
    ELSE IF out = "error" THEN Respond(asked, 400, "Invalid option for this poll")
    ELSE [asked EXCEPT !.option = row, !.pc = "insertVote"]

VoteAfterOption(q, out, row) ==
    LET asked == Called(q, out) IN
    IF out = "throw" THEN Unexpected(asked)
    ELSE IF out = "error" \/ row = NoRow
    THEN Respond(asked, 400, "Invalid option for this poll")
    ELSE [asked EXCEPT !.option = row, !.pc = "insertVote"]

\* the row with a user id that is not the one of the request
VoteToInsertAsFirstUser(q) == VoteRow(nextId, q.pollId, q.body.option_id, "u1")

\* the row the handler asks the store to insert
VoteToInsert(q) == VoteRow(nextId, q.pollId, q.body.option_id, q.user)

\* the answer when the branch on the unique violation is missing
VoteAfterInsertNoConflict(q, out, code) ==
    LET asked == [Called(q, out) EXCEPT !.code = IF out = "throw" THEN "" ELSE code] IN
    IF out = "throw" THEN Unexpected(asked)
    ELSE IF out = "error" \/ code # "" THEN HandleVoteError(asked)
    ELSE [asked EXCEPT !.vote = VoteToInsert(q), !.pc = "audit"]

\* the answer when a unique violation is taken for the user's own earlier
\* vote and answered as a success
VoteAfterInsertLenient(q, out, code) ==
    LET asked == [Called(q, out) EXCEPT !.code = IF out = "throw" THEN "" ELSE code] IN
    IF out = "throw" THEN Unexpected(asked)
    ELSE IF code = UNIQUE_VIOLATION
    THEN [asked EXCEPT !.pc = "audit"]
    ELSE IF out = "error" \/ code # "" THEN HandleVoteError(asked)
    ELSE [asked EXCEPT !.vote = VoteToInsert(q), !.pc = "audit"]

\* the answer when every error of the insert is taken for a second vote
VoteAfterInsertAllConflicts(q, out, code) ==
    LET asked == [Called(q, out) EXCEPT !.code = IF out = "throw" THEN "" ELSE code] IN
    IF out = "throw" THEN Unexpected(asked)
    ELSE IF out = "error" \/ code # ""
    THEN Respond(asked, 409, "You have already voted on this poll")
    ELSE [asked EXCEPT !.vote = VoteToInsert(q), !.pc = "audit"]

\* the answer to the error code of the insert ("" when the row went in);
\* the code the store returned is kept in q.code
VoteAfterInsert(q, out, code) ==
    LET asked == [Called(q, out) EXCEPT !.code = IF out = "throw" THEN "" ELSE code] IN
    IF out = "throw" THEN Unexpected(asked)
    ELSE IF code = UNIQUE_VIOLATION
    THEN Respond(asked, 409, "You have already voted on this poll")
    ELSE IF out = "error" \/ code # "" THEN HandleVoteError(asked)
    ELSE [asked EXCEPT !.vote = VoteToInsert(q), !.pc = "audit"]

VoteEvent(q) == [type |-> "vote", user |-> q.user, poll |-> q.pollId]

VoteStart(r, header, pollId, body) ==
    /\ req[r].pc = "idle"
    /\ req' = [req EXCEPT ![r] =
          VoteBegin([Idle EXCEPT !.kind = "vote", !.pc = "begin", !.header = header,
                                 !.pollId = pollId, !.body = body,
                                 !.before = OptionsOf(pollId),
                                 !.hadVote = \E v \in votes :
                                     /\ v.poll_id = pollId
                                     /\ v.user_id = GetUser(VoteToken(header))])]
    /\ UNCHANGED <<polls, poll_options, votes, nextId, audit, clientVars, dash>>

VoteLookupPoll(r) ==
    /\ req[r].kind = "vote" /\ req[r].pc = "lookupPoll"
    /\ \E out \in Outcomes :
          /\ req' = [req EXCEPT ![r] = VoteAfterPoll(@, out, SelectSingle(polls, @.pollId))]
    /\ UNCHANGED <<polls, poll_options, votes, nextId, audit, clientVars, dash>>

VoteLookupOption(r) ==
    /\ req[r].kind = "vote" /\ req[r].pc = "lookupOption"
    /\ \E out \in Outcomes :
          /\ req' = [req EXCEPT ![r] =
                VoteAfterOption(@, out, SelectOption(@.body.option_id, @.pollId))]
    /\ UNCHANGED <<polls, poll_options, votes, nextId, audit, clientVars, dash>>

\* the insert followed by an update of the count of the chosen option
VoteInsertCounting(r) ==
    /\ req[r].kind = "vote" /\ req[r].pc = "insertVote"
    /\ \E out \in Outcomes :
          LET row == VoteToInsert(req[r])
              code == IF out = "ok" THEN InsertVoteCode(row) ELSE "XX000"
              went == out = "ok" /\ code = ""
          IN  /\ req' = [req EXCEPT ![r] = VoteAfterInsert(@, out, code)]
              /\ votes' = IF went THEN votes \cup {row} ELSE votes
              /\ nextId' = IF went THEN nextId + 1 ELSE nextId
              /\ poll_options' =
                    IF went
                    THEN { IF o.id = row.option_id THEN [o EXCEPT !.votes = @ + 1] ELSE o :
                           o \in poll_options }
                    ELSE poll_options
    /\ UNCHANGED <<polls, audit, clientVars, dash>>

VoteInsert(r) ==
    /\ req[r].kind = "vote" /\ req[r].pc = "insertVote"
    /\ \E out \in Outcomes :
          LET row == VoteToInsert(req[r])
              code == IF out = "ok" THEN InsertVoteCode(row) ELSE "XX000"
              went == out = "ok" /\ code = ""
          IN  /\ req' = [req EXCEPT ![r] = VoteAfterInsert(@, out, code)]
              /\ votes' = IF went THEN votes \cup {row} ELSE votes
              /\ nextId' = IF went THEN nextId + 1 ELSE nextId
    /\ UNCHANGED <<polls, poll_options, audit, clientVars, dash>>

\* auditLog.vote(...) outside the try / catch: a failure reaches the catch
\* of the handler
VoteAuditStrict(r) ==
    /\ req[r].kind = "vote" /\ req[r].pc = "audit"
    /\ \E out \in Outcomes \ {"error"} :
          /\ req' = [req EXCEPT ![r] =
                IF out = "throw" THEN Unexpected(Noted(@, out))
                ELSE [@ EXCEPT !.pc = "readBack", !.audits = @ + 1]]
          /\ audit' = IF out = "ok" THEN audit \cup {VoteEvent(req[r])} ELSE audit
    /\ UNCHANGED <<polls, poll_options, votes, nextId, clientVars, dash>>

\* auditLog.vote(...) inside try / catch: a failure is swallowed
VoteAudit(r) ==
    /\ req[r].kind = "vote" /\ req[r].pc = "audit"
    /\ \E out \in Outcomes \ {"error"} :
          /\ req' = [req EXCEPT ![r] =
                [Noted(@, out) EXCEPT !.pc = "readBack",
                                      !.audits = IF out = "ok" THEN @ + 1 ELSE @]]
          /\ audit' = IF out = "ok" THEN audit \cup {VoteEvent(req[r])} ELSE audit
    /\ UNCHANGED <<polls, poll_options, votes, nextId, clientVars, dash>>

\* the read-back with its error answered like the error of GET vote results
VoteAfterReadBackStrict(q, out, rows) ==
    LET asked == Called(q, out) IN
    IF out = "throw" THEN Unexpected(asked)
    ELSE IF out = "error" THEN Respond(asked, 500, "Failed to fetch poll results")
    ELSE [Respond(asked, 201, "Vote submitted successfully!") EXCEPT
             !.success = TRUE, !.keys = @ \cup {"vote", "poll"}, !.results = rows]

\* the read-back of the results and the 201 answer
VoteAfterReadBack(q, out, rows) ==
    LET asked == Called(q, out) IN
    IF out = "throw" THEN Unexpected(asked)
    ELSE [Respond(asked, 201, "Vote submitted successfully!") EXCEPT
             !.success = TRUE, !.keys = @ \cup {"vote", "poll"},
             !.results = IF out = "error" THEN <<>> ELSE rows]

VoteReadBack(r) ==
    /\ req[r].kind = "vote" /\ req[r].pc = "readBack"
    /\ \E out \in Outcomes :
          req' = [req EXCEPT ![r] =
              VoteAfterReadBack(@, out, OrderedByVotes(OptionsOf(@.pollId)))]
    /\ UNCHANGED <<polls, poll_options, votes, nextId, audit, clientVars, dash>>

---------------------------------------------------------------------------
(* GET /api/polls/[id]/vote *)

RECURSIVE SumVotes(_)
SumVotes(S) ==
    IF S = {} THEN 0
    ELSE LET x == CHOOSE y \in S : TRUE IN x.votes + SumVotes(S \ {x})

\* Math.round((n / total) * 100), and 0 when there is no vote
Percentage(n, total) ==
    IF total > 0 THEN (200 * n + total) \div (2 * total) ELSE 0

WithPercentage(o, total) ==
    [id |-> o.id, text |-> o.text, votes |-> o.votes, percentage |-> Percentage(o.votes, total)]

ResultsAfterPoll(q, out, row) ==
    LET asked == Called(q, out) IN
    IF out = "throw" THEN Unexpected(asked)
    ELSE IF out = "error" \/ row = NoRow THEN Respond(asked, 404, "Poll not found")
    ELSE [asked EXCEPT !.poll = row, !.pc = "options"]

\* the answer with the options, given the rows in the order the store returned them
ResultsAfterOptions(q, out, rows) ==
    LET asked == Called(q, out)
        total == SumVotes({ rows[i] : i \in 1 .. Len(rows) })
    IN  IF out = "throw" THEN Unexpected(asked)
        ELSE IF out = "error" THEN Respond(asked, 500, "Failed to fetch poll results")
        ELSE [Respond(asked, 200, "") EXCEPT
                 !.success = TRUE, !.keys = {"success", "poll"},
                 !.results = [i \in 1 .. Len(rows) |-> WithPercentage(rows[i], total)],
                 !.total = total]

ResultsStart(r, pollId) ==
    /\ req[r].pc = "idle"
    /\ \E out \in Outcomes :
          /\ req' = [req EXCEPT ![r] =
                ResultsAfterPoll([Idle EXCEPT !.kind = "results", !.pc = "lookupPoll",
                                              !.pollId = pollId,
                                              !.before = OptionsOf(pollId)],
                                 out, SelectSingle(polls, pollId))]
    /\ UNCHANGED <<polls, poll_options, votes, nextId, audit, clientVars, dash>>

ResultsOptions(r) ==
    /\ req[r].kind = "results" /\ req[r].pc = "options"
    /\ \E out \in Outcomes :
          req' = [req EXCEPT ![r] =
              ResultsAfterOptions(@, out, OrderedByVotes(OptionsOf(@.pollId)))]
    /\ UNCHANGED <<polls, poll_options, votes, nextId, audit, clientVars, dash>>

---------------------------------------------------------------------------
(* lib/api-helpers.ts and lib/validation-schemas *)

Payload(title, options) ==
    [format |-> "json", title |-> title, options |-> options, contentLength |-> 0]

RECURSIVE TotalLen(_)
TotalLen(ss) == IF ss = <<>> THEN 0 ELSE Len(Head(ss)) + TotalLen(Tail(ss))

\* JSON.stringify({ title, options }).length
JsonLength(p) ==
    10 + Len(p.title) + 13 + TotalLen(p.options) + 2 * Len(p.options)
       + (IF Len(p.options) > 0 THEN Len(p.options) - 1 ELSE 0) + 2

\* ApiHelpers.validateRequestSize: the content-length header, 0 when absent
RequestTooLarge(p) == p.contentLength > REQUEST_SIZE_LIMIT

\* ApiHelpers.validateJsonSize
JsonTooLarge(p) == JsonLength(p) > REQUEST_SIZE_LIMIT

TrimAll(ss) == [i \in 1 .. Len(ss) |-> Trim(ss[i])]

FieldError(field, message) == [field |-> field, message |-> message]

When(cond, e) == IF cond THEN {e} ELSE {}

\* validateAndSanitizePoll(body).errors
PollErrors(p) ==
    LET title == Trim(p.title)
        opts == TrimAll(p.options)
        n == Len(opts)
    IN  When(Len(title) < MinTitleLength,
             FieldError("title", "Title must be at least 3 characters"))
        \cup When(Len(title) > MaxTitleLength, FieldError("title", "Title too long"))
        \cup When(n < MinOptions, FieldError("options", "At least 2 options required"))
        \cup When(n > MaxOptions, FieldError("options", "Maximum 10 options allowed"))
        \cup When(\E j \in 1 .. n : Len(opts[j]) < 1,
                  FieldError("options", "Option text is required"))
        \cup When(\E j \in 1 .. n : Len(opts[j]) > MaxOptionLength,
                  FieldError("options", "Option too long"))
        \cup When(\E j, k \in 1 .. n : k # j /\ opts[k] = opts[j],
                  FieldError("options", "Options must be unique"))

\* validateAndSanitizePoll(body).data
PollData(p) == [title |-> Trim(p.title), options |-> TrimAll(p.options)]

\* ApiHelpers.authenticateUser: the user, or the message of the 401 answer;
\* called says whether auth.getUser was reached
AuthenticateUser(header) ==
    IF ~header.present \/ ~StartsWith(header.value, BearerPrefix)
    THEN [user |-> NoUser, message |-> "Invalid authorization header format", called |-> 0]
    ELSE LET token == Trim(ReplaceFirst(header.value, BearerPrefix)) IN
         IF token = <<>> \/ Len(token) < MIN_TOKEN_LENGTH
         THEN [user |-> NoUser, message |-> "Invalid token format", called |-> 0]
         ELSE IF GetUser(token) = NoUser
         THEN [user |-> NoUser, message |-> "Unauthorized - Invalid token", called |-> 1]
         ELSE [user |-> GetUser(token), message |-> "", called |-> 1]

\* ApiHelpers.handleDatabaseError
HandleDatabaseError(q, message) == Respond(q, 500, message)

\* the rows with the ordinal index counted from one
OptionsDataFromOne(pollId, options) ==
    LET kept == SelectSeq(options, LAMBDA o : Trim(o) # <<>>)
    IN  [i \in 1 .. Len(kept) |->
            [poll_id |-> pollId, text |-> Trim(kept[i]), votes |-> 0, order |-> i]]

\* the rows createPollWithOptions asks the store to insert for the options
OptionsData(pollId, options) ==
    LET kept == SelectSeq(options, LAMBDA o : Trim(o) # <<>>)
    IN  [i \in 1 .. Len(kept) |->
            [poll_id |-> pollId, text |-> Trim(kept[i]), votes |-> 0, order |-> i - 1]]

\* the rows as the store holds them, each with the id the store gave it
StoredOptions(data) ==
    { OptionRow(OptionId(data[i].poll_id, i - 1), data[i].poll_id, data[i].text,
                data[i].votes, data[i].order) : i \in 1 .. Len(data) }

---------------------------------------------------------------------------
(* POST /api/polls *)

\* the handler going on after a failed validation (the return is missing)
CreateBeginUnvalidated(q) ==
    IF RequestTooLarge(q.payload) THEN Respond(q, 413, "Request too large")
    ELSE IF q.payload.format = "badjson" THEN Unexpected(q)
    ELSE IF JsonTooLarge(q.payload) THEN Respond(q, 413, "Request payload too large")
    ELSE LET auth == AuthenticateUser(q.header)
             called == [q EXCEPT !.authCalls = @ + auth.called]
         IN  IF auth.user = NoUser THEN Respond(called, 401, auth.message)
             ELSE [called EXCEPT !.user = auth.user, !.data = PollData(q.payload),
                                 !.pc = "insertPoll"]

\* the handler with the size of the body checked after its validation
CreateBeginValidateFirst(q) ==
    IF RequestTooLarge(q.payload) THEN Respond(q, 413, "Request too large")
    ELSE IF q.payload.format = "badjson" THEN Unexpected(q)
    ELSE IF PollErrors(q.payload) # {}
    THEN ErrorResponse(q, "Validation failed", 400, PollErrors(q.payload))
    ELSE IF JsonTooLarge(q.payload) THEN Respond(q, 413, "Request payload too large")
    ELSE LET auth == AuthenticateUser(q.header)
             called == [q EXCEPT !.authCalls = @ + auth.called]
         IN  IF auth.user = NoUser THEN Respond(called, 401, auth.message)
             ELSE [called EXCEPT !.user = auth.user, !.data = PollData(q.payload),
                                 !.pc = "insertPoll"]

\* from the entry of the handler up to the answer of authenticateUser
CreateBegin(q) ==
    IF RequestTooLarge(q.payload) THEN Respond(q, 413, "Request too large")
    ELSE IF q.payload.format = "badjson" THEN Unexpected(q)
    ELSE IF JsonTooLarge(q.payload) THEN Respond(q, 413, "Request payload too large")
    ELSE IF PollErrors(q.payload) # {}
    THEN ErrorResponse(q, "Validation failed", 400, PollErrors(q.payload))
    ELSE LET auth == AuthenticateUser(q.header)
             called == [q EXCEPT !.authCalls = @ + auth.called]
         IN  IF auth.user = NoUser THEN Respond(called, 401, auth.message)
             ELSE [called EXCEPT !.user = auth.user, !.data = PollData(q.payload),
                                 !.pc = "insertPoll"]

\* the row createPollWithOptions asks the store to insert for the poll
PollToInsert(q) == PollRow(nextId, q.data.title, TRUE, q.user, 0)

CreateAfterPoll(q, out) ==
    LET asked == Called(q, out) IN
    IF out = "throw" THEN HandleDatabaseError(asked, "Failed to create poll with options")
    ELSE IF out = "error" THEN HandleDatabaseError(asked, "Failed to create poll")
    ELSE [asked EXCEPT !.poll = PollToInsert(q), !.pc = "insertOptions"]

CreateAfterOptions(q, out) ==
    LET asked == Called(q, out) IN
    IF out = "throw" THEN HandleDatabaseError(asked, "Failed to create poll with options")
    ELSE IF out = "error" THEN HandleDatabaseError(asked, "Failed to create poll options")
    ELSE [asked EXCEPT !.results = OptionsData(q.poll.id, q.data.options), !.pc = "audit"]

CreateEvent(q) == [type |-> "poll_created", user |-> q.user, poll |-> q.poll.id]

\* the polls POST /api/polls has inserted or is about to insert
Creating ==
    Cardinality({ p \in polls : p.id >= FirstFreeId })
    + Cardinality({ s \in DOMAIN req : req[s].pc = "insertPoll" })

CreateStart(r, header, payload) ==
    /\ req[r].pc = "idle"
    /\ Creating < MaxCreated
    /\ req' = [req EXCEPT ![r] =
          CreateBegin([Idle EXCEPT !.kind = "create", !.pc = "begin", !.header = header,
                                   !.payload = payload])]
    /\ UNCHANGED <<polls, poll_options, votes, nextId, audit, clientVars, dash>>

CreateInsertPoll(r) ==
    /\ req[r].kind = "create" /\ req[r].pc = "insertPoll"
    /\ \E out \in Outcomes :
          /\ req' = [req EXCEPT ![r] = CreateAfterPoll(@, out)]
          /\ polls' = IF out = "ok" THEN polls \cup {PollToInsert(req[r])} ELSE polls
          /\ nextId' = IF out = "ok" THEN nextId + 1 ELSE nextId
    /\ UNCHANGED <<poll_options, votes, audit, clientVars, dash>>

CreateInsertOptions(r) ==
    /\ req[r].kind = "create" /\ req[r].pc = "insertOptions"
    /\ \E out \in Outcomes :
          /\ req' = [req EXCEPT ![r] = CreateAfterOptions(@, out)]
          /\ poll_options' =
                IF out = "ok"
                THEN poll_options \cup StoredOptions(OptionsData(req[r].poll.id,
                                                                 req[r].data.options))
                ELSE poll_options
    /\ UNCHANGED <<polls, votes, nextId, audit, clientVars, dash>>

\* ApiHelpers.safeAuditLog, then the 201 answer
CreateAudit(r) ==
    /\ req[r].kind = "create" /\ req[r].pc = "audit"
    /\ \E out \in Outcomes \ {"error"} :
          /\ req' = [req EXCEPT ![r] =
                [SuccessResponse(Noted(@, out), "Poll created successfully!",
                                 {"pollId", "poll"}, 201) EXCEPT
                    !.pollIdOut = req[r].poll.id,
                    !.audits = IF out = "ok" THEN @ + 1 ELSE @]]
          /\ audit' = IF out = "ok" THEN audit \cup {CreateEvent(req[r])} ELSE audit
    /\ UNCHANGED <<polls, poll_options, votes, nextId, clientVars, dash>>

---------------------------------------------------------------------------
(* GET /api/polls *)

\* the nested select options: poll_options (id, votes)
NestedOptions(pollId) == { [id |-> o.id, votes |-> o.votes] : o \in OptionsOf(pollId) }

\* one poll of the answer with the options counted instead of their votes
PollWithVotesCounted(p) ==
    [id |-> p.id, title |-> p.title, is_active |-> p.is_active, owner_id |-> p.owner_id,
     options |-> NestedOptions(p.id), total_votes |-> Cardinality(NestedOptions(p.id))]

\* one poll of the answer with the total_votes of the row left as it is
PollWithVotesStored(p) ==
    [id |-> p.id, title |-> p.title, is_active |-> p.is_active, owner_id |-> p.owner_id,
     options |-> NestedOptions(p.id), total_votes |-> p.total_votes]

\* one poll of the answer: the row, its options and the computed total_votes,
\* which replaces the total_votes of the row
PollWithVotes(p) ==
    [id |-> p.id, title |-> p.title, is_active |-> p.is_active, owner_id |-> p.owner_id,
     options |-> NestedOptions(p.id), total_votes |-> SumVotes(NestedOptions(p.id))]

\* the rows of S by creation time, newest first (ids grow with creation time)
RECURSIVE NewestFirst(_)
NewestFirst(S) ==
    IF S = {} THEN <<>>
    ELSE LET x == CHOOSE y \in S : \A z \in S : z.id <= y.id
         IN  <<x>> \o NewestFirst(S \ {x})

\* PollDatabase.fetchPollsWithVotes().polls
FetchPollsWithVotes ==
    LET rows == NewestFirst({ p \in polls : p.is_active })
    IN  [i \in 1 .. Len(rows) |-> PollWithVotes(rows[i])]

ListAfterFetch(q, out, list) ==
    LET asked == Called(q, out) IN
    IF out = "throw" THEN HandleDatabaseError(asked, "Failed to fetch polls with votes")
    ELSE IF out = "error" THEN HandleDatabaseError(asked, "Failed to fetch polls")
    ELSE [SuccessResponse(asked, "Polls fetched successfully", {"polls"}, 200) EXCEPT
             !.results = list]

ListPolls(r) ==
    /\ req[r].pc = "idle"
    /\ \E out \in Outcomes :
          /\ req' = [req EXCEPT ![r] =
                ListAfterFetch([Idle EXCEPT !.kind = "list", !.pc = "fetch"],
                               out, FetchPollsWithVotes)]
    /\ UNCHANGED <<polls, poll_options, votes, nextId, audit, clientVars, dash>>

---------------------------------------------------------------------------
(* lib/actions/poll-actions.ts: the server action createPoll *)

\* the issues of CreatePollSchema.parse(input): the title and the options
\* are taken as they come, nothing is trimmed
SchemaIssues(p) ==
    LET n == Len(p.options)
    IN  When(Len(p.title) < MinTitleLength,
             FieldError("title", "Title must be at least 3 characters"))
        \cup When(Len(p.title) > MaxTitleLength, FieldError("title", "Title too long"))
        \cup When(n < MinOptions, FieldError("options", "At least 2 options required"))
        \cup When(n > MaxOptions, FieldError("options", "Maximum 10 options allowed"))
        \cup When(\E j \in 1 .. n : Len(p.options[j]) < 1,
                  FieldError("options", "Option text is required"))
        \cup When(\E j \in 1 .. n : Len(p.options[j]) > MaxOptionLength,
                  FieldError("options", "Option too long"))

\* newPoll.options
NewPollOptions(p) ==
    [i \in 1 .. Len(p.options) |-> [id |-> i, text |-> p.options[i], votes |-> 0]]

\* what createPoll returns: out is what headers() does outside of parse
CreatePollReturns(q, out) ==
    IF SchemaIssues(q.payload) # {}
    THEN [q EXCEPT !.pc = "done", !.success = FALSE, !.message = "Invalid input data",
                   !.errors = SchemaIssues(q.payload),
                   !.keys = {"success", "message", "errors"}]
    ELSE IF out = "throw"
    THEN [Noted(q, out) EXCEPT !.pc = "done", !.success = FALSE,
                               !.message = "Failed to create poll",
                               !.keys = {"success", "message", "error"}]
    ELSE [q EXCEPT !.pc = "done", !.success = TRUE,
                   !.message = "Poll created successfully!",
                   !.keys = {"success", "message", "data"},
                   !.dataKeys = {"pollId", "poll"},
                   !.results = NewPollOptions(q.payload)]

\* createPoll(input)
CreatePoll(r, input) ==
    /\ req[r].pc = "idle"
    /\ \E out \in Outcomes \ {"error"} :
          req' = [req EXCEPT ![r] =
              CreatePollReturns([Idle EXCEPT !.kind = "createPoll", !.pc = "parse",
                                             !.payload = input], out)]
    /\ UNCHANGED <<polls, poll_options, votes, nextId, audit, clientVars, dash>>

---------------------------------------------------------------------------
(* lib/api-client.ts *)

\* the characters of a string
Chars(str) == [i \in 1 .. Len(str) |-> SubSeq(str, i, i)]

\* String.prototype.includes
Includes(str, part) ==
    \E i \in 1 .. Len(str) - Len(part) + 1 : SubSeq(str, i, i + Len(part) - 1) = part

Digits == {"0", "1", "2", "3", "4", "5", "6", "7", "8", "9"}

\* [0-9a-f] under the flag i
Hex == Digits \cup {"a", "b", "c", "d", "e", "f", "A", "B", "C", "D", "E", "F"}

\* n times the class c
Times(n, c) == [i \in 1 .. n |-> c]

Dash == <<{"-"}>>

\* the same groups of hexadecimal digits with any digit for the version and
\* for the variant
UuidRegexLoose ==
    Times(8, Hex) \o Dash \o Times(4, Hex) \o Dash \o Times(4, Hex)
    \o Dash \o Times(4, Hex) \o Dash \o Times(12, Hex)

\* /^[0-9a-f]{8}-[0-9a-f]{4}-[1-5][0-9a-f]{3}-[89ab][0-9a-f]{3}-[0-9a-f]{12}$/i
\* as the sequence of its character classes
UuidRegex ==
    Times(8, Hex) \o Dash \o Times(4, Hex) \o Dash
    \o <<{"1", "2", "3", "4", "5"}>> \o Times(3, Hex) \o Dash
    \o <<{"8", "9", "a", "b", "A", "B"}>> \o Times(3, Hex) \o Dash \o Times(12, Hex)

\* RegExp.prototype.test for an anchored sequence of character classes
Test(regex, s) == Len(s) = Len(regex) /\ \A i \in 1 .. Len(s) : s[i] \in regex[i]

\* getAuthToken: localStorage.getItem(...) || sessionStorage.getItem(...);
\* null and the empty string are falsy
GetAuthToken ==
    IF localStorage.present /\ localStorage.value # <<>> THEN localStorage
    ELSE sessionStorage

\* isAuthenticated
IsAuthenticated == GetAuthToken.present

\* makeApiRequest: the Authorization header of the request
AuthorizationHeader ==
    IF GetAuthToken.present /\ GetAuthToken.value # <<>>
    THEN Hdr(BearerPrefix \o GetAuthToken.value)
    ELSE NoHeader

\* what fetch and response.json() can give makeApiRequest: an answer of the
\* server with its message, or a network error
NetworkError == [ok |-> FALSE, thrown |-> TRUE, message |-> "Failed to fetch"]
Answer(ok, message) == [ok |-> ok, thrown |-> FALSE, message |-> message]

VoteAnswers ==
    { Answer(TRUE, "Vote submitted successfully!"),
      Answer(FALSE, "You have already voted on this poll"),
      Answer(FALSE, "Poll not found"),
      Answer(FALSE, "Invalid option for this poll"),
      NetworkError }

\* makeApiRequest: the ApiResponse for what fetch gave
MakeApiRequest(answer) == [success |-> answer.ok, message |-> answer.message]

\* an entry of the log of calls
Call(op, token, persistent, pollId, optionId, success, message) ==
    [op |-> op, token |-> token, persistent |-> persistent, pollId |-> pollId,
     optionId |-> optionId, success |-> success, message |-> message,
     authenticated |-> FALSE]

\* castVote: whether a request is sent, and what is returned
CastVoteResult(pollId, optionId, answer) ==
    IF pollId = <<>> \/ optionId = <<>>
    THEN [sent |-> FALSE, success |-> FALSE, message |-> "Poll ID and Option ID are required"]
    ELSE IF ~Test(UuidRegex, pollId) \/ ~Test(UuidRegex, optionId)
    THEN [sent |-> FALSE, success |-> FALSE, message |-> "Invalid poll ID or option ID format"]
    ELSE LET response == MakeApiRequest(answer) IN
         [sent |-> TRUE, success |-> response.success,
          message |->
              IF response.success THEN response.message
              ELSE IF Includes(response.message, "already voted")
              THEN "You have already voted on this poll"
              ELSE IF Includes(response.message, "not found")
              THEN "Poll not found or no longer active"
              ELSE IF Includes(response.message, "Invalid option")
              THEN "The selected option is not valid for this poll"
              ELSE response.message]

\* the request castVote sends
VoteRequest(pollId, optionId) ==
    [method |-> "POST", pollId |-> pollId, optionId |-> optionId,
     authorization |-> AuthorizationHeader]

CastVote(pollId, optionId) ==
    /\ Len(clientLog) < MaxCalls
    /\ \E answer \in VoteAnswers :
          LET result == CastVoteResult(pollId, optionId, answer) IN
          /\ fetched' = IF result.sent THEN Append(fetched, VoteRequest(pollId, optionId))
                         ELSE fetched
          /\ clientLog' = Append(clientLog,
                Call("castVote", <<>>, FALSE, pollId, optionId, result.success, result.message))
    /\ UNCHANGED <<serverVars, localStorage, sessionStorage, dash>>

\* setAuthToken(token, persistent)
SetAuthToken(token, persistent) ==
    /\ Len(clientLog) < MaxCalls
    /\ localStorage' = IF persistent THEN Item(token) ELSE localStorage
    /\ sessionStorage' = IF persistent THEN sessionStorage ELSE Item(token)
    /\ clientLog' = Append(clientLog, Call("setAuthToken", token, persistent, <<>>, <<>>, TRUE, ""))
    /\ UNCHANGED <<serverVars, fetched, dash>>

\* clearAuthToken(), and isAuthenticated() right after it
ClearAuthToken ==
    /\ Len(clientLog) < MaxCalls
    /\ localStorage' = NoItem
    /\ sessionStorage' = NoItem
    /\ clientLog' = Append(clientLog,
          [Call("clearAuthToken", <<>>, FALSE, <<>>, <<>>, TRUE, "") EXCEPT
              !.authenticated = IsAuthenticated'])
    /\ UNCHANGED <<serverVars, fetched, dash>>

---------------------------------------------------------------------------
(* components/RealTimePollDashboard.tsx *)

\* updatedPolls: the poll with one vote more for the option
Updated(p, option) ==
    [votes |-> [p.votes EXCEPT ![option] = @ + 1], totalVotes |-> p.totalVotes + 1]

\* handleVote(pollId, optionId) up to the await: polls is the state as the
\* render that made this handler saw it
HandleVote(option) ==
    /\ Len(dash.calls) < MaxClicks
    /\ dash' = [dash EXCEPT
          !.polls = Updated(dash.rendered, option),
          !.calls = Append(@, [option |-> option, polls |-> dash.rendered,
                               pc |-> "voteOnPoll", success |-> FALSE])]
    /\ UNCHANGED <<serverVars, clientVars>>

\* handleVote after the await: voteOnPoll has returned success or not
VoteSettled(i) ==
    /\ i \in 1 .. Len(dash.calls) /\ dash.calls[i].pc = "voteOnPoll"
    /\ \E success \in BOOLEAN :
          dash' = [dash EXCEPT
              !.polls = IF success THEN @ ELSE dash.calls[i].polls,
              !.calls[i].pc = "settled",
              !.calls[i].success = success]
    /\ UNCHANGED <<serverVars, clientVars>>

\* the component renders again: the handlers it makes see the state of now
Render ==
    /\ dash.rendered # dash.polls
    /\ dash' = [dash EXCEPT !.rendered = dash.polls]
    /\ UNCHANGED <<serverVars, clientVars>>

---------------------------------------------------------------------------
(* The requests that arrive *)

HeaderU1 == Hdr(BearerPrefix \o TokenU1)
GoodHeaders == { HeaderU1, Hdr(BearerPrefix \o TokenU2) }
BadHeaders == Headers \ GoodHeaders

ActivePolls == { p.id : p \in { x \in polls : x.is_active } }
OptionIds(pollId) == { o.id : o \in OptionsOf(pollId) }

\* <<Authorization header, poll id of the URL, body>>: every well-formed
\* vote on an active poll, and requests with one or two defects
VoteInputs ==
    UNION { { <<h, p, UuidBody(o)>> : h \in GoodHeaders, o \in OptionIds(p) } :
            p \in ActivePolls }
    \cup { <<h, 1, UuidBody(OptionId(1, 0))>> : h \in BadHeaders }
    \cup { <<HeaderU1, p, UuidBody(OptionId(1, 0))>> : p \in {2, 99} }
    \cup { <<HeaderU1, 1, b>> :
           b \in { UuidBody(OptionId(2, 0)), UuidBody(99), TextBody, BadJson } }
    \cup { <<NoHeader, 1, TextBody>> }

\* the votes that race: every well-formed vote on the fresh poll, and one
\* request for each answer that is given before the insert
RaceInputs ==
    { <<h, 1, UuidBody(o)>> : h \in GoodHeaders, o \in OptionIds(1) }
    \cup { <<NoHeader, 1, UuidBody(OptionId(1, 0))>>,
           <<HeaderU1, 2, UuidBody(OptionId(2, 0))>>,
           <<HeaderU1, 1, UuidBody(OptionId(2, 0))>> }

TextGreen == <<"G">>

ValidPayloads ==
    { Payload(TitleColor, <<TextRed, TextBlue>>),
      Payload(<<" ">> \o TitleColor, << <<" ">> \o TextBlue, TextRed \o <<" ">>, TextGreen >>) }

InvalidPayloads ==
    { Payload(<<"C", "o", " ">>, <<TextRed, TextBlue>>),
      Payload(TitleColor, <<TextRed>>),
      Payload(TitleColor, <<TextRed, <<" ">> >>),
      Payload(TitleColor, <<TextRed, TextBlue, <<" ">> \o TextRed>>),
      [Payload(TitleColor, <<TextRed, TextBlue>>) EXCEPT !.contentLength = REQUEST_SIZE_LIMIT + 1],
      [Payload(TitleColor, <<TextRed, TextBlue>>) EXCEPT !.format = "badjson"] }

\* <<Authorization header, body>>
CreateInputs ==
    { <<h, p>> : h \in GoodHeaders, p \in ValidPayloads }
    \cup { <<h, Payload(TitleColor, <<TextRed, TextBlue>>)>> : h \in BadHeaders }
    \cup { <<HeaderU1, p>> : p \in InvalidPayloads }
    \cup { <<NoHeader, Payload(TitleColor, <<TextRed>>)>> }

\* a title of n characters
LongTitle(n) == [i \in 1 .. n |-> "x"]

\* the title with which the body of two one-letter options serializes to
\* exactly n characters
TitleForJsonLength(n) ==
    LongTitle(n - JsonLength(Payload(<<>>, <<TextRed, TextBlue>>)))

\* <<Authorization header, body>>: bodies at and over the size limit, with
\* and without a content-length header at and over the limit
SizeInputs ==
    { <<HeaderU1, Payload(TitleForJsonLength(REQUEST_SIZE_LIMIT + 1), <<TextRed, TextBlue>>)>>,
      <<NoHeader, Payload(TitleForJsonLength(REQUEST_SIZE_LIMIT + 1), <<TextRed, TextBlue>>)>>,
      <<HeaderU1, Payload(TitleForJsonLength(REQUEST_SIZE_LIMIT), <<TextRed, TextBlue>>)>>,
      <<HeaderU1, [Payload(TitleColor, <<TextRed, TextBlue>>) EXCEPT
                      !.contentLength = REQUEST_SIZE_LIMIT]>>,
      <<NoHeader, [Payload(TitleColor, <<TextRed>>) EXCEPT
                      !.contentLength = REQUEST_SIZE_LIMIT + 1]>> }

\* inputs of the server action createPoll
ActionInputs ==
    ValidPayloads
    \cup { Payload(TitleColor, <<TextRed, TextRed>>),
           Payload(TitleColor, <<TextRed, TextBlue, TextRed>>),
           Payload(TitleColor, <<TextRed>>),
           Payload(TitleColor, <<TextRed, <<>> >>) }

ResultsInputs == ActivePolls \cup {99}

\* requests are taken by the first free slot
Free(r) == req[r].pc = "idle" /\ \A s \in 1 .. r - 1 : req[s].pc # "idle"

VoteSteps ==
    \/ \E r \in DOMAIN req : VoteLookupPoll(r)
    \/ \E r \in DOMAIN req : VoteLookupOption(r)
    \/ \E r \in DOMAIN req : VoteInsert(r)
    \/ \E r \in DOMAIN req : VoteAudit(r)
    \/ \E r \in DOMAIN req : VoteReadBack(r)
    \/ \E r \in DOMAIN req, p \in ResultsInputs : Free(r) /\ ResultsStart(r, p)
    \/ \E r \in DOMAIN req : ResultsOptions(r)

VoteNext ==
    \/ \E r \in DOMAIN req, i \in RaceInputs : Free(r) /\ VoteStart(r, i[1], i[2], i[3])
    \/ VoteSteps

PollsNext ==
    \/ \E r \in DOMAIN req, i \in CreateInputs : Free(r) /\ CreateStart(r, i[1], i[2])
    \/ \E r \in DOMAIN req : CreateInsertPoll(r)
    \/ \E r \in DOMAIN req : CreateInsertOptions(r)
    \/ \E r \in DOMAIN req : CreateAudit(r)
    \/ \E r \in DOMAIN req : Free(r) /\ ListPolls(r)

Init == InitWith(MaxSerial)

Next ==
    \/ \E r \in DOMAIN req, i \in VoteInputs : Free(r) /\ VoteStart(r, i[1], i[2], i[3])
    \/ VoteSteps
    \/ PollsNext
    \/ \E r \in DOMAIN req, i \in SizeInputs : Free(r) /\ CreateStart(r, i[1], i[2])
    \/ \E r \in DOMAIN req, i \in ActionInputs : Free(r) /\ CreatePoll(r, i)

\* every endpoint, every input
Spec == Init /\ [][Next]_vars

\* the vote endpoints, with requests in flight together
SpecVote == InitWith(MaxSlots) /\ [][VoteNext]_vars

\* the poll endpoints, with requests in flight together
SpecPolls == InitWith(MaxSlots) /\ [][PollsNext]_vars

\* a valid UUID, and strings the pattern refuses for one reason each
\* <<Authorization header, poll id of the URL, body>>: the votes that reach
\* the insert, one for each user
WriteVotes == { <<h, 1, UuidBody(OptionId(1, 0))>> : h \in GoodHeaders }

\* <<Authorization header, body>>: the requests that create a poll, two
\* bodies with the same header and one of the other user
WriteCreates ==
    { <<HeaderU1, p>> : p \in ValidPayloads }
    \cup { <<h, Payload(TitleColor, <<TextRed, TextBlue>>)>> : h \in GoodHeaders }

WritesNext ==
    \/ \E r \in DOMAIN req, i \in WriteVotes : Free(r) /\ VoteStart(r, i[1], i[2], i[3])
    \/ \E r \in DOMAIN req : VoteLookupPoll(r)
    \/ \E r \in DOMAIN req : VoteLookupOption(r)
    \/ \E r \in DOMAIN req : VoteInsert(r)
    \/ \E r \in DOMAIN req : VoteAudit(r)
    \/ \E r \in DOMAIN req : VoteReadBack(r)
    \/ \E r \in DOMAIN req, i \in WriteCreates : Free(r) /\ CreateStart(r, i[1], i[2])
    \/ \E r \in DOMAIN req : CreateInsertPoll(r)
    \/ \E r \in DOMAIN req : CreateInsertOptions(r)
    \/ \E r \in DOMAIN req : CreateAudit(r)

\* the two endpoints that write rows with a user id, requests in flight together
SpecWrites == InitWith(MaxSlots) /\ [][WritesNext]_vars

GoodUuid == Chars("123e4567-e89b-12d3-a456-426614174000")
UpperUuid == Chars("123E4567-E89B-42D3-B456-42661417400F")

NonUuids ==
    { Chars("invalid-id"),
      Chars("123e4567-e89b-02d3-a456-426614174000"),
      Chars("123e4567-e89b-62d3-a456-426614174000"),
      Chars("123e4567-e89b-12d3-c456-426614174000"),
      Chars("123e4567-e89b-12d3-a456-42661417400g"),
      Chars("123e4567-e89b-12d3-a456-4266141740000"),
      Chars(" 123e4567-e89b-12d3-a456-426614174000"),
      Chars("123e4567e89b12d3a456426614174000") }

\* <<pollId, optionId>>
CastInputs ==
    { <<GoodUuid, GoodUuid>>, <<UpperUuid, GoodUuid>>,
      << <<>>, GoodUuid>>, <<GoodUuid, <<>> >>, << <<>>, Chars("invalid-id")>> }
    \cup { <<x, GoodUuid>> : x \in NonUuids }
    \cup { <<GoodUuid, x>> : x \in { y \in NonUuids : Len(y) < Len(GoodUuid) } }

ClientTokens == {TokenU1, TokenU2}

ClientNext ==
    \/ \E i \in CastInputs : CastVote(i[1], i[2])
    \/ \E token \in ClientTokens, persistent \in BOOLEAN : SetAuthToken(token, persistent)
    \/ ClearAuthToken

\* the client functions called one after the other
SpecClient == InitWith(0) /\ [][ClientNext]_vars

DashNext ==
    \/ \E option \in DashOptions : HandleVote(option)
    \/ \E i \in 1 .. MaxClicks : VoteSettled(i)
    \/ Render

\* the dashboard and the votes cast through it
SpecDash == InitWith(0) /\ [][DashNext]_vars

---------------------------------------------------------------------------
(* Properties *)

IsDone(q, kind) == q.kind = kind /\ q.pc = "done"

\* the vote requests of user u on poll p that name an option of p
VotesBy(u, p) ==
    { r \in DOMAIN req :
        /\ req[r].kind = "vote" /\ req[r].user = u /\ req[r].pollId = p
        /\ req[r].body.option_id \in OptionIds(p) }

\* C1: the votes table holds at most one row for each pair (poll_id, user_id),
\* whatever the number and the interleaving of the vote requests
OneVotePerUserAndPoll ==
    \A v, w \in votes : (v.poll_id = w.poll_id /\ v.user_id = w.user_id) => v = w

\* two requests of one user on one poll have both reached the insert
C1Witness ==
    \E r, s \in DOMAIN req :
        /\ r # s /\ req[r].user = req[s].user /\ req[r].pollId = req[s].pollId
        /\ req[r].kind = "vote" /\ req[s].kind = "vote"
        /\ req[r].vote # NoRow /\ req[r].vote \in votes
        /\ req[s].status = 409

\* C2: when the vote requests of one user on one active poll have all been
\* answered and no call of theirs failed, exactly one was answered 201 and
\* every other one 409
OneWinnerPerRace ==
    \A u \in Users, p \in ActivePolls :
        LET R == VotesBy(u, p) IN
        (R # {} /\ \A r \in R : req[r].pc = "done" /\ req[r].faults = {})
        => /\ Cardinality({ r \in R : req[r].status = 201 }) = 1
           /\ \A r \in R : req[r].status \in {201, 409}

\* the request that arrived first lost the race to one that arrived later
C2Witness ==
    \E r, s \in DOMAIN req :
        /\ r < s /\ s \in VotesBy(req[r].user, req[r].pollId)
        /\ r \in VotesBy(req[r].user, req[r].pollId)
        /\ req[r].faults = {} /\ req[s].faults = {}
        /\ req[r].pc = "done" /\ req[r].status = 409
        /\ req[s].pc = "done" /\ req[s].status = 201

\* C3: a vote request of a user who had a vote row for the poll when the
\* request arrived, for any option of the poll, is answered 409 "You have
\* already voted on this poll", inserts no row and leaves the vote counts of
\* the poll's options as they were
SecondVoteRejected ==
    \A r \in DOMAIN req :
        ( /\ IsDone(req[r], "vote") /\ req[r].hadVote /\ req[r].faults = {}
          /\ req[r].pollId \in ActivePolls
          /\ r \in VotesBy(req[r].user, req[r].pollId) )
        => /\ req[r].status = 409
           /\ req[r].message = "You have already voted on this poll"
           /\ req[r].vote = NoRow
           /\ Cardinality({ v \in votes : v.poll_id = req[r].pollId
                                          /\ v.user_id = req[r].user }) = 1
           /\ OptionsOf(req[r].pollId) = req[r].before

\* a second vote for the other option of the poll has been answered
C3Witness ==
    \E r \in DOMAIN req :
        /\ IsDone(req[r], "vote") /\ req[r].hadVote /\ req[r].status = 409
        /\ \E v \in votes : /\ v.poll_id = req[r].pollId /\ v.user_id = req[r].user
                            /\ v.option_id # req[r].body.option_id

\* the vote count of option id in the rows S
VotesIn(S, id) == SumVotes({ o \in S : o.id = id })

\* C4: the results in a 201 answer to a vote for option X show the count of X
\* one higher than before the request and the other counts unchanged
VoteIsCounted ==
    \A r \in DOMAIN req :
        (IsDone(req[r], "vote") /\ req[r].status = 201 /\ req[r].faults = {})
        => \A i \in 1 .. Len(req[r].results) :
              req[r].results[i].votes =
                  VotesIn(req[r].before, req[r].results[i].id)
                  + (IF req[r].results[i].id = req[r].body.option_id THEN 1 ELSE 0)


\* the body of q passed the checks that come before authentication
ReachedAuth(q) ==
    \/ q.kind = "vote" /\ q.body.format = "uuid"
    \/ /\ q.kind = "create" /\ q.payload.format = "json"
       /\ q.payload.contentLength <= REQUEST_SIZE_LIMIT
       /\ JsonLength(q.payload) <= REQUEST_SIZE_LIMIT
       /\ PollErrors(q.payload) = {}

HasBearerPrefix(h) == h.present /\ StartsWith(h.value, BearerPrefix)

\* the header of h without the prefix it starts with, trimmed
BearerToken(h) == Trim(SubSeq(h.value, Len(BearerPrefix) + 1, Len(h.value)))

\* C5: a request to POST /api/polls or POST /api/polls/[id]/vote without a
\* header that starts with "Bearer " is answered 401 "Invalid authorization
\* header format", one whose token has fewer than 10 characters 401 "Invalid
\* token format", and in both cases the auth provider is not called
MalformedHeaderRejected ==
    \A r \in DOMAIN req :
        (req[r].pc = "done" /\ ReachedAuth(req[r]))
        => /\ ~HasBearerPrefix(req[r].header)
              => /\ req[r].status = 401
                 /\ req[r].message = "Invalid authorization header format"
                 /\ req[r].authCalls = 0
           /\ (HasBearerPrefix(req[r].header)
               /\ Len(BearerToken(req[r].header)) < MIN_TOKEN_LENGTH)
              => /\ req[r].status = 401
                 /\ req[r].message = "Invalid token format"
                 /\ req[r].authCalls = 0

\* the body of q reached validation and failed it
ValidationFails(q) ==
    \/ q.kind = "vote" /\ q.body.format = "text"
    \/ /\ q.kind = "create" /\ q.payload.format = "json"
       /\ q.payload.contentLength <= REQUEST_SIZE_LIMIT
       /\ JsonLength(q.payload) <= REQUEST_SIZE_LIMIT
       /\ PollErrors(q.payload) # {}

\* q reached authentication and no user was resolved
AuthFails(q) == ReachedAuth(q) /\ q.user = NoUser

Created == { p \in polls : p.id >= FirstFreeId }

\* C7: no poll row inserted by createPollWithOptions is without option rows,
\* unless the request that inserted it is still about to insert them
CreatedPollHasOptions ==
    \A p \in Created :
        OptionsOf(p.id) = {}
        => \E r \in DOMAIN req :
              /\ req[r].kind = "create" /\ req[r].pc = "insertOptions"
              /\ req[r].poll.id = p.id

\* C8: when the poll row went in and the insert of the options returned an
\* error, the answer is 500 "Poll created but options failed"
OptionsFailureReported ==
    \A r \in DOMAIN req :
        ( /\ IsDone(req[r], "create") /\ req[r].poll \in polls
          /\ [at |-> "insertOptions", out |-> "error"] \in req[r].faults )
        => /\ req[r].status = 500
           /\ req[r].message = "Poll created but options failed"

\* q is a poll creation with a valid payload and a token of a user
ValidCreate(q) ==
    q.kind = "create" /\ ReachedAuth(q) /\ AuthenticateUser(q.header).user \in Users

\* the store accepted every insert of q
StoreAccepted(q) == \A f \in q.faults : f.at = "audit"

\* C9: a valid poll creation by an authenticated user whose inserts the store
\* accepts is answered 201, and the poll of the answer has the options of the
\* input, in the order of the input, each with votes 0 and with its position in
\* the input (from 0) as ordinal index
CreatedOptionsFollowInput ==
    \A r \in DOMAIN req :
        (req[r].pc = "done" /\ ValidCreate(req[r]) /\ StoreAccepted(req[r]))
        => /\ req[r].status = 201
           /\ Len(req[r].results) = Len(req[r].payload.options)
           /\ \A i \in 1 .. Len(req[r].results) :
                 /\ req[r].results[i].text = Trim(req[r].payload.options[i])
                 /\ req[r].results[i].votes = 0
                 /\ req[r].results[i].order = i - 1
                 /\ req[r].results[i].poll_id = req[r].poll.id
           /\ StoredOptions(req[r].results) \subseteq poll_options

\* a poll of three options, sent with blanks around them, has been created
C9Witness ==
    \E r \in DOMAIN req :
        /\ IsDone(req[r], "create") /\ req[r].status = 201
        /\ Len(req[r].results) = 3
        /\ \E i \in 1 .. 3 : req[r].results[i].text # req[r].payload.options[i]

\* C10: a GET /api/polls that follows a POST /api/polls answered 201 returns
\* a list with the new poll in it, with total_votes 0 and with each of its
\* options at votes 0
ListShowsNewPoll ==
    [][ \A g \in DOMAIN req :
          (req[g].pc = "idle" /\ req'[g].kind = "list" /\ req'[g].status = 200)
          => \A c \in DOMAIN req :
                (IsDone(req[c], "create") /\ req[c].status = 201)
                => \E i \in 1 .. Len(req'[g].results) :
                      /\ req'[g].results[i].id = req[c].poll.id
                      /\ req'[g].results[i].total_votes = 0
                      /\ Cardinality(req'[g].results[i].options) = Len(req[c].results)
                      /\ \A o \in req'[g].results[i].options : o.votes = 0 ]_vars

\* the list was fetched after the answer 201 and holds the new poll
C10Witness ==
    \E c, g \in DOMAIN req :
        /\ IsDone(req[c], "create") /\ req[c].status = 201
        /\ IsDone(req[g], "list") /\ req[g].status = 200
        /\ \E i \in 1 .. Len(req[g].results) :
              /\ req[g].results[i].id = req[c].poll.id
              /\ req[g].results[i].options # {}

\* C11: the body of every answer of the four handlers, success or error, has
\* the fields success and message
ResponseHasEnvelope ==
    \A r \in DOMAIN req :
        req[r].pc = "done" => {"success", "message"} \subseteq req[r].keys

\* C12: the body of a 201 answer of POST /api/polls has pollId and poll at the
\* top level, pollId being the id the store gave the poll row, and the body
\* of a 200 answer of GET /api/polls has polls at the top level
ResultAtTopLevel ==
    \A r \in DOMAIN req :
        /\ (IsDone(req[r], "create") /\ req[r].status = 201)
           => /\ {"success", "message", "pollId", "poll"} \subseteq req[r].keys
              /\ req[r].pollIdOut = req[r].poll.id
              /\ req[r].poll \in polls
        /\ (IsDone(req[r], "list") /\ req[r].status = 200)
           => {"success", "polls"} \subseteq req[r].keys

\* q is a vote with a well-formed body by an authenticated user, and no call
\* of the request failed
CleanVote(q) ==
    /\ IsDone(q, "vote") /\ VoteSchemaOk(q.body) /\ q.user \in Users /\ q.faults = {}

\* C13: a vote with a valid body by an authenticated user is answered 404 when
\* no poll has the id, and 400 "Poll is no longer active" when the poll is
\* not active; in both cases the poll lookup is the only call on the tables
\* (no option lookup, no insert into votes)
AbsentOrInactivePollRejected ==
    \A r \in DOMAIN req :
        CleanVote(req[r])
        => LET row == SelectSingle(polls, req[r].pollId) IN
           /\ row = NoRow
              => /\ req[r].status = 404 /\ ~req[r].success
                 /\ req[r].storeOps = 1 /\ req[r].option = NoRow /\ req[r].vote = NoRow
           /\ (row # NoRow /\ ~row.is_active)
              => /\ req[r].status = 400 /\ ~req[r].success
                 /\ req[r].message = "Poll is no longer active"
                 /\ req[r].storeOps = 1 /\ req[r].option = NoRow /\ req[r].vote = NoRow

\* a vote of a signed-in user on the deactivated poll was answered
C13Witness ==
    \E r \in DOMAIN req :
        /\ CleanVote(req[r]) /\ req[r].status = 400 /\ req[r].storeOps = 1
        /\ \E p \in polls : p.id = req[r].pollId /\ ~p.is_active

\* C14: a vote on an existing active poll whose option_id is a well-formed
\* UUID that names no option, or an option of another poll, is answered 400
\* "Invalid option for this poll", and no insert into votes is issued
ForeignOptionRejected ==
    \A r \in DOMAIN req :
        ( /\ CleanVote(req[r]) /\ req[r].pollId \in ActivePolls
          /\ req[r].body.option_id \notin OptionIds(req[r].pollId) )
        => /\ req[r].status = 400 /\ ~req[r].success
           /\ req[r].message = "Invalid option for this poll"
           /\ req[r].storeOps = 2 /\ req[r].vote = NoRow
           /\ \A v \in votes : v.option_id # req[r].body.option_id

\* a vote on poll 1 that names an option of another poll was answered
C14Witness ==
    \E r \in DOMAIN req :
        /\ CleanVote(req[r]) /\ req[r].pollId \in ActivePolls
        /\ \E o \in poll_options :
               o.id = req[r].body.option_id /\ o.poll_id # req[r].pollId
        /\ req[r].status = 400

AuditThrew == [at |-> "audit", out |-> "throw"]

\* C15: when the audit call throws after the vote went in (POST vote) or
\* after the poll and its options went in (POST /api/polls), and no call
\* throws after it, the answer is 201 with success true and the rows are in
\* the store
AuditFailureSwallowed ==
    \A r \in DOMAIN req :
        ( /\ req[r].pc = "done" /\ AuditThrew \in req[r].faults
          /\ req[r].faults \subseteq {AuditThrew, [at |-> "readBack", out |-> "error"]} )
        => /\ req[r].status = 201 /\ req[r].success /\ req[r].audits = 0
           /\ req[r].kind = "vote" => req[r].vote \in votes
           /\ req[r].kind = "create"
              => /\ req[r].poll \in polls
                 /\ req[r].results # <<>>
                 /\ StoredOptions(req[r].results) \subseteq poll_options

\* a vote whose audit call threw has been answered
C15Witness ==
    \E r \in DOMAIN req :
        /\ IsDone(req[r], "vote") /\ req[r].faults = {AuditThrew}
        /\ req[r].vote \in votes /\ VoteEvent(req[r]) \notin audit

ReadBackFailed == [at |-> "readBack", out |-> "error"]

ConflictIffUniqueViolation ==
    \A r \in DOMAIN req :
        IsDone(req[r], "vote")
        => /\ req[r].status = 409 <=> req[r].code = UNIQUE_VIOLATION
           /\ req[r].code \notin {"", UNIQUE_VIOLATION}
              => /\ req[r].status \notin {409, 201} /\ req[r].status >= 400
                 /\ ~req[r].success /\ req[r].vote = NoRow

\* one vote was refused for the unique violation; the vote that took its
\* place went in while it was on its way
C17Witness ==
    \E r \in DOMAIN req :
        /\ IsDone(req[r], "vote") /\ req[r].code = UNIQUE_VIOLATION
        /\ req[r].status = 409 /\ ~req[r].hadVote

\* C18: when a call of the store throws during POST /api/polls, after
\* validation and authentication, the answer is 500 with success false and
\* the message "An unexpected error occurred"
StoreThrowIsUnexpected ==
    \A r \in DOMAIN req :
        ( /\ IsDone(req[r], "create")
          /\ \E f \in req[r].faults :
                f.out = "throw" /\ f.at \in {"insertPoll", "insertOptions"} )
        => /\ req[r].status = 500 /\ ~req[r].success
           /\ req[r].message = "An unexpected error occurred"

\* C19: a POST /api/polls whose content-length header is over 10000, or whose
\* body serializes to more than 10000 characters, is answered 413 with the
\* body not validated, the user not authenticated and no table touched
OversizeRejectedFirst ==
    \A r \in DOMAIN req :
        ( /\ IsDone(req[r], "create")
          /\ \/ req[r].payload.contentLength > REQUEST_SIZE_LIMIT
             \/ /\ req[r].payload.format = "json"
                /\ JsonLength(req[r].payload) > REQUEST_SIZE_LIMIT )
        => /\ req[r].status = 413 /\ ~req[r].success
           /\ req[r].errors = {} /\ req[r].user = NoUser
           /\ req[r].authCalls = 0 /\ req[r].storeOps = 0

\* a body over the limit, whose title validation would refuse, was answered
\* although its content-length header said nothing
C19Witness ==
    \E r \in DOMAIN req :
        /\ IsDone(req[r], "create") /\ req[r].status = 413
        /\ req[r].payload.contentLength = 0
        /\ Len(req[r].payload.title) > MaxTitleLength
        /\ JsonLength(req[r].payload) = REQUEST_SIZE_LIMIT + 1

\* C20: every poll of an answer of GET /api/polls has the options the store
\* holds for it at the read, and as total_votes the sum of their votes,
\* whatever the total_votes column of the poll row says
TotalIsSumOfOptionVotes ==
    [][ \A g \in DOMAIN req :
          (req[g].pc = "idle" /\ req'[g].kind = "list" /\ req'[g].status = 200)
          => /\ Len(req'[g].results) = Cardinality({ p \in polls : p.is_active })
             /\ \A i \in 1 .. Len(req'[g].results) :
                   LET row == req'[g].results[i] IN
                   /\ row.options = NestedOptions(row.id)
                   /\ row.total_votes = SumVotes(OptionsOf(row.id)) ]_vars

\* the list holds a poll whose total is not the one its row carries
C20Witness ==
    \E g \in DOMAIN req :
        /\ IsDone(req[g], "list") /\ req[g].status = 200
        /\ \E i \in 1 .. Len(req[g].results), p \in polls :
              /\ p.id = req[g].results[i].id
              /\ req[g].results[i].total_votes > 0
              /\ req[g].results[i].total_votes # p.total_votes

\* two options of the body p are equal once trimmed
HasEqualOptions(p) ==
    \E j, k \in 1 .. Len(p.options) :
        j # k /\ Trim(p.options[j]) = Trim(p.options[k])

ActionOptionsUnique ==
    \A r \in DOMAIN req :
        IsDone(req[r], "createPoll")
        => /\ (\E j, k \in 1 .. Len(req[r].payload.options) :
                  j # k /\ req[r].payload.options[j] = req[r].payload.options[k])
              => ~req[r].success
           /\ req[r].success
              => \A j, k \in 1 .. Len(req[r].results) :
                    j # k => req[r].results[j].text # req[r].results[k].text

CastCalls == { i \in 1 .. Len(clientLog) : clientLog[i].op = "castVote" }

\* C24: castVote returns success false and sends no request when pollId or
\* optionId is empty (message "Poll ID and Option ID are required") or when
\* one of them is not a UUID of version 1 to 5 (message "Invalid poll ID or
\* option ID format")
MalformedIdsNotSent ==
    [][ \A i \in CastCalls' \ CastCalls :
          LET call == clientLog'[i]
              empty == call.pollId = <<>> \/ call.optionId = <<>>
          IN  /\ empty
                 => /\ ~call.success /\ fetched' = fetched
                    /\ call.message = "Poll ID and Option ID are required"
              /\ (~empty /\ (call.pollId \in NonUuids \/ call.optionId \in NonUuids))
                 => /\ ~call.success /\ fetched' = fetched
                    /\ call.message = "Invalid poll ID or option ID format" ]_vars

\* castVote was called with a UUID whose version digit is 6 and, before or
\* after, with two UUIDs; one request was sent
C24Witness ==
    /\ Len(fetched) = 1
    /\ \E i \in CastCalls :
          /\ Test(UuidRegexLoose, clientLog[i].pollId)
          /\ clientLog[i].pollId[15] = "6"
          /\ ~clientLog[i].success
    /\ \E i \in CastCalls : clientLog[i].pollId = UpperUuid

\* C25: a POST vote request answered with a status other than 201 has added
\* no row to votes, also when a call after the insert throws
OnlyAcceptedVotesAreStored ==
    \A r \in DOMAIN req :
        (IsDone(req[r], "vote") /\ req[r].status # 201)
        => req[r].vote \notin votes

\* C27: the option of every vote row is an option of the poll of that row
VoteOptionBelongsToPoll ==
    \A v \in votes :
        \E o \in poll_options : o.id = v.option_id /\ o.poll_id = v.poll_id

\* a vote went in, and a vote of the same user on the same poll that named
\* an option of another poll was refused
C27Witness ==
    \E v \in votes, r \in DOMAIN req :
        /\ IsDone(req[r], "vote") /\ req[r].status = 400
        /\ req[r].user = v.user_id /\ req[r].pollId = v.poll_id
        /\ \E o \in poll_options : o.id = req[r].body.option_id /\ o.poll_id # v.poll_id

\* C30: a request records at most one audit event, and only after its write
\* went in: the vote event after the vote row, the poll_created event after
\* the poll row and its option rows; a request answered with an error has
\* recorded none
AuditFollowsWrite ==
    \A r \in DOMAIN req :
        /\ req[r].audits <= 1
        /\ req[r].audits = 1
           => /\ req[r].kind = "vote" => req[r].vote \in votes
              /\ req[r].kind = "create"
                 => /\ req[r].poll \in polls
                    /\ StoredOptions(req[r].results) \subseteq poll_options
                    /\ req[r].results # <<>>
        /\ (req[r].pc = "done" /\ ~req[r].success) => req[r].audits = 0

\* the header a request has to carry after the calls of the log: the token of
\* the last setAuthToken, and none after clearAuthToken or before any call
ExpectedHeader ==
    LET TokenCalls == { i \in 1 .. Len(clientLog) :
                          clientLog[i].op \in {"setAuthToken", "clearAuthToken"} }
    IN  IF TokenCalls = {} THEN NoHeader
        ELSE LET last == CHOOSE i \in TokenCalls : \A j \in TokenCalls : j <= i IN
             IF clientLog[last].op = "setAuthToken"
             THEN Hdr(BearerPrefix \o clientLog[last].token)
             ELSE NoHeader

\* C28: a request of the client carries "Bearer <token>" with the token of
\* the most recent setAuthToken since the last clearAuthToken, whatever the
\* persistent flags were, and after clearAuthToken it carries no
\* Authorization header and isAuthenticated() is false
LastTokenIsSent ==
    [][ /\ Len(fetched') > Len(fetched)
           => fetched'[Len(fetched')].authorization = ExpectedHeader
        /\ Len(clientLog') > Len(clientLog)
             /\ clientLog'[Len(clientLog')].op = "clearAuthToken"
           => ~clientLog'[Len(clientLog')].authenticated ]_vars

\* C29: once every call of handleVote has settled, the count of each option
\* in the dashboard's polls is its initial count plus the number of
\* successful votes for it, in every interleaving of the calls
CountsMatchSuccessfulVotes ==
    LET SuccessfulVotes(option) ==
            { i \in 1 .. Len(dash.calls) :
                /\ dash.calls[i].option = option
                /\ dash.calls[i].pc = "settled"
                /\ dash.calls[i].success }
    IN  (\A i \in 1 .. Len(dash.calls) : dash.calls[i].pc = "settled")
        => \A o \in DashOptions :
             dash.polls.votes[o] = InitialPolls.votes[o] + Cardinality(SuccessfulVotes(o))

\* the request stored a row with a user id: its vote, or the poll it created
StoredRow(r) ==
    \/ req[r].kind = "vote" /\ req[r].vote \in votes
    \/ req[r].kind = "create" /\ req[r].poll \in polls

\* C26: the user_id of a stored vote and the owner_id of a stored poll are
\* the user id the auth provider resolves from the bearer token of the
\* request that stored the row, so two requests that differ only in the
\* body store the same user id
StoredUserIsTokenUser ==
    LET StoredUser(r) == IF req[r].kind = "vote" THEN req[r].vote.user_id
                         ELSE req[r].poll.owner_id
    IN  /\ \A r \in DOMAIN req :
              StoredRow(r) /\ HasBearerPrefix(req[r].header)
              => /\ StoredUser(r) = GetUser(BearerToken(req[r].header))
                 /\ StoredUser(r) \in Users
        /\ \A r, s \in DOMAIN req :
              /\ StoredRow(r) /\ StoredRow(s)
              /\ req[r].kind = req[s].kind
              /\ req[r].header = req[s].header
              /\ req[r].pollId = req[s].pollId
              => StoredUser(r) = StoredUser(s)

\* two requests with the same header and different bodies have each stored
\* a poll, and the owner of both is the user of the token
C26Witness ==
    \E r, s \in DOMAIN req :
       /\ req[r].kind = "create" /\ req[s].kind = "create"
       /\ StoredRow(r) /\ StoredRow(s)
       /\ req[r].header = req[s].header
       /\ req[r].payload # req[s].payload
       /\ req[r].poll.owner_id = "u1" /\ req[s].poll.owner_id = "u1"

====
